---- MODULE Spec2Model ----
(***************************************************************************)
(* Flappy Capybara (src/index.js): the Level (pipe queue, background       *)
(* strips), the Capy (vertical integrator) and the FlappyCapy orchestrator *)
(* (frame callbacks, mousedown handler, restart).                          *)
(*                                                                         *)
(* Numbers.  Pipe coordinates are whole pixels.  The Capy's y and vel are  *)
(* multiples of 0.1 px (GRAVITY 0.4, FLAP_SPEED 7.5) and are stored in     *)
(* tenths of a pixel: a Capy quantity q is stored as q * Unit.  Arithmetic *)
(* is exact; the rounding of IEEE doubles is not modelled.                 *)
(***************************************************************************)
EXTENDS Integers, Sequences, FiniteSets

VARIABLES running, level, capy, score, backgroundRunning, raf, alerted, steps, probe

vars == <<running, level, capy, score, backgroundRunning, raf, alerted, steps, probe>>

---------------------------------------------------------------------------
(* CONSTANTS (index.js 17-26), in pixels *)
HORIZONTAL_PIPE_SPACING == 220
PIPE_GAP == 150
WARMUP_SECONDS == 1
EDGE_BUFFER == 50
PIPE_WIDTH == 50
PIPE_SPEED == 2
BACKGROUND_SPEED == 1

(* CONST (index.js 269-276).  CAPY_WIDTH and CAPY_HEIGHT in pixels;        *)
(* GRAVITY, FLAP_SPEED and TERMINAL_VEL in tenths: 0.4, 7.5 and 12.        *)
Unit == 10
CAPY_WIDTH == 45
CAPY_HEIGHT == 33
GRAVITY == 4
FLAP_SPEED == 75
TERMINAL_VEL == 120

(* The canvas: this.dimensions = {width: canvas.width, height: canvas.height} *)
Width == 480
Height == 640

(* The background image is 1920 wide *)
BackgroundWidth == 1920

---------------------------------------------------------------------------
(* Bounds of the model *)

(* Math.random() is drawn from the grid {0, 1/RandDenom, ..., (RandDenom-1)/RandDenom} *)
RandDenom == 40

(* CapySpec calls moveCapy while the Capy is within MaxFall tenths of its   *)
(* starting height                                                         *)
MaxFall == 2000

(* OobSpec places the Capy within ProbeSpan tenths of the heights 0,       *)
(* Height - CAPY_HEIGHT and Height                                         *)
ProbeSpan == 20

(* frames an idle session is left waiting before the player clicks *)
MaxIdleFrames == 1

(* the player stops clicking once the score reaches MaxScore *)
MaxScore == 2

(* the canvas heights tried are Height less up to MaxShrink edge buffers *)
MaxShrink == 11

Rand == 0 .. (RandDenom - 1)

(* the draws of the state machines: Math.random() = 0 and Math.random() = 1/2 *)
LevelRand == {0, RandDenom \div 2}

---------------------------------------------------------------------------
(* Level *)

randomPipe_NoBuffer(distance, rnd) ==
    LET heightRange == Height - (2 * EDGE_BUFFER) - PIPE_GAP
        topOfGap == (rnd * heightRange) \div RandDenom
    IN  [topPipe    |-> [left |-> distance, right |-> PIPE_WIDTH + distance,
                         top |-> 0, bottom |-> topOfGap],
         bottomPipe |-> [left |-> distance, right |-> PIPE_WIDTH + distance,
                         top |-> topOfGap + PIPE_GAP, bottom |-> Height],
         passed     |-> FALSE]

(* randomPipe(distance) of a Level of the given dimensions, with           *)
(* Math.random() = rnd / RandDenom                                         *)
randomPipeIn(dimensions, distance, rnd) ==
    LET heightRange == dimensions.height - (2 * EDGE_BUFFER) - PIPE_GAP
        topOfGap == ((rnd * heightRange) \div RandDenom) + EDGE_BUFFER
    IN  [topPipe    |-> [left |-> distance, right |-> PIPE_WIDTH + distance,
                         top |-> 0, bottom |-> topOfGap],
         bottomPipe |-> [left |-> distance, right |-> PIPE_WIDTH + distance,
                         top |-> topOfGap + PIPE_GAP, bottom |-> dimensions.height],
         passed     |-> FALSE]

(* the canvas of the game *)
Dimensions == [width |-> Width, height |-> Height]

(* randomPipe(distance) on the canvas of the game *)
randomPipe(distance, rnd) == randomPipeIn(Dimensions, distance, rnd)

(* makeBackground(): the strip it returns and the flag it leaves *)
makeBackground(appendBackground) ==
    IF appendBackground
    THEN [background |-> [pos |-> Width], appendBackground |-> FALSE]
    ELSE [background |-> [pos |-> Width - BackgroundWidth],
          appendBackground |-> appendBackground]

(* new Level(dimensions); this.appendBackground is undefined (falsy) when  *)
(* the constructor calls makeBackground                                    *)
NewLevel(r1, r2, r3) ==
    LET firstPipeDistance == Width + (WARMUP_SECONDS * 60 * PIPE_SPEED)
        backgroundFirst == makeBackground(FALSE).background
    IN  [pipes |-> << randomPipe(firstPipeDistance, r1),
                      randomPipe(firstPipeDistance + HORIZONTAL_PIPE_SPACING, r2),
                      randomPipe(firstPipeDistance + (2 * HORIZONTAL_PIPE_SPACING), r3) >>,
         backgroundQueue |-> << backgroundFirst >>,
         appendBackground |-> TRUE]

(* new Level(dimensions) for dimensions other than the game's canvas: the  *)
(* constructor stores them and builds the pipes with no test of them       *)
NewLevelIn(dimensions, r1, r2, r3) ==
    LET firstPipeDistance == dimensions.width + (WARMUP_SECONDS * 60 * PIPE_SPEED)
    IN  [NewLevel(r1, r2, r3) EXCEPT
            !.pipes = << randomPipeIn(dimensions, firstPipeDistance, r1),
                         randomPipeIn(dimensions,
                                      firstPipeDistance + HORIZONTAL_PIPE_SPACING, r2),
                         randomPipeIn(dimensions,
                                      firstPipeDistance + (2 * HORIZONTAL_PIPE_SPACING),
                                      r3) >>]

(* the callback of movePipes' eachPipe *)
shiftPipe(pipe) ==
    [pipe EXCEPT !.topPipe.left = @ - PIPE_SPEED,
                 !.topPipe.right = @ - PIPE_SPEED,
                 !.bottomPipe.left = @ - PIPE_SPEED,
                 !.bottomPipe.right = @ - PIPE_SPEED]

movePipes_NoPush(lv, rnd) ==
    LET moved == [i \in 1 .. Len(lv.pipes) |-> shiftPipe(lv.pipes[i])]
    IN  IF moved[1].topPipe.right <= 0
        THEN [lv EXCEPT !.pipes = Tail(moved)]
        ELSE [lv EXCEPT !.pipes = moved]

movePipes_FrontOffset(lv, rnd) ==
    LET moved == [i \in 1 .. Len(lv.pipes) |-> shiftPipe(lv.pipes[i])]
    IN  IF moved[1].topPipe.right <= 0
        THEN LET shifted == Tail(moved)
                 newXOffset == shifted[1].topPipe.left + HORIZONTAL_PIPE_SPACING
             IN  [lv EXCEPT !.pipes = Append(shifted, randomPipe(newXOffset, rnd))]
        ELSE [lv EXCEPT !.pipes = moved]

movePipes_Late(lv, rnd) ==
    LET moved == [i \in 1 .. Len(lv.pipes) |-> shiftPipe(lv.pipes[i])]
    IN  IF moved[1].topPipe.right < 0
        THEN LET shifted == Tail(moved)
                 newXOffset == shifted[2].topPipe.left + HORIZONTAL_PIPE_SPACING
             IN  [lv EXCEPT !.pipes = Append(shifted, randomPipe(newXOffset, rnd))]
        ELSE [lv EXCEPT !.pipes = moved]

(* movePipes(); rnd is the draw of the randomPipe call of a recycle.       *)
(* this.pipes[1] after the shift() is the second of the two pairs left.    *)
movePipes(lv, rnd) ==
    LET moved == [i \in 1 .. Len(lv.pipes) |-> shiftPipe(lv.pipes[i])]
    IN  IF moved[1].topPipe.right <= 0
        THEN LET shifted == Tail(moved)
                 newXOffset == shifted[2].topPipe.left + HORIZONTAL_PIPE_SPACING
             IN  [lv EXCEPT !.pipes = Append(shifted, randomPipe(newXOffset, rnd))]
        ELSE [lv EXCEPT !.pipes = moved]

moveAnimatedBackground_NoReset(lv) ==
    LET first == lv.backgroundQueue[1].pos
        made == makeBackground(lv.appendBackground)
        switched ==
            IF first = Width - BackgroundWidth
            THEN [lv EXCEPT !.backgroundQueue = Append(@, made.background),
                            !.appendBackground = made.appendBackground]
            ELSE IF first = -BackgroundWidth
            THEN [lv EXCEPT !.backgroundQueue = Tail(@)]
            ELSE lv
    IN  [switched EXCEPT !.backgroundQueue =
            [i \in 1 .. Len(switched.backgroundQueue) |->
                [pos |-> switched.backgroundQueue[i].pos - BACKGROUND_SPEED]]]

(* moveAnimatedBackground() *)
moveAnimatedBackground(lv) ==
    LET first == lv.backgroundQueue[1].pos
        made == makeBackground(lv.appendBackground)
        switched ==
            IF first = Width - BackgroundWidth
            THEN [lv EXCEPT !.backgroundQueue = Append(@, made.background),
                            !.appendBackground = TRUE]
            ELSE IF first = -BackgroundWidth
            THEN [lv EXCEPT !.backgroundQueue = Tail(@)]
            ELSE lv
    IN  [switched EXCEPT !.backgroundQueue =
            [i \in 1 .. Len(switched.backgroundQueue) |->
                [pos |-> switched.backgroundQueue[i].pos - BACKGROUND_SPEED]]]

overlap_Strict(pipe, capyBound) ==
    IF pipe.left * Unit >= capyBound.right \/ pipe.right * Unit <= capyBound.left
    THEN FALSE
    ELSE IF pipe.top * Unit >= capyBound.bottom \/ pipe.bottom * Unit <= capyBound.top
    THEN FALSE
    ELSE TRUE

(* _overlap(pipe, capy) of collidesWith; the pipe is in pixels, the bounds in tenths *)
overlap(pipe, capyBound) ==
    IF pipe.left * Unit > capyBound.right \/ pipe.right * Unit < capyBound.left
    THEN FALSE
    ELSE IF pipe.top * Unit > capyBound.bottom \/ pipe.bottom * Unit < capyBound.top
    THEN FALSE
    ELSE TRUE

(* collidesWith(capyBound): collision starts false and is set by any pair  *)
RECURSIVE collideFrom(_, _, _, _)
collideFrom(pipes, i, capyBound, collision) ==
    IF i > Len(pipes)
    THEN collision
    ELSE collideFrom(pipes, i + 1, capyBound,
            IF overlap(pipes[i].topPipe, capyBound) \/ overlap(pipes[i].bottomPipe, capyBound)
            THEN TRUE
            ELSE collision)

collidesWith(lv, capyBound) == collideFrom(lv.pipes, 1, capyBound, FALSE)

passedOne_Never(pipe, capyBound) == [pipe |-> pipe, calls |-> 0]

passedOne_NoFlag(pipe, capyBound) ==
    IF pipe.topPipe.right * Unit < capyBound.left
    THEN [pipe |-> [pipe EXCEPT !.passed = TRUE], calls |-> 1]
    ELSE [pipe |-> pipe, calls |-> 0]

(* the callback of passedPipe's eachPipe: the pair it leaves and the     *)
(* number of times it invoked the callback                                *)
passedOne(pipe, capyBound) ==
    IF pipe.topPipe.right * Unit < capyBound.left
    THEN IF ~pipe.passed
         THEN [pipe |-> [pipe EXCEPT !.passed = TRUE], calls |-> 1]
         ELSE [pipe |-> pipe, calls |-> 0]
    ELSE [pipe |-> pipe, calls |-> 0]

RECURSIVE sumCalls(_, _, _)
sumCalls(pipes, capyBound, i) ==
    IF i > Len(pipes) THEN 0
    ELSE passedOne(pipes[i], capyBound).calls + sumCalls(pipes, capyBound, i + 1)

(* passedPipe(capy, callback): the level it leaves and the number of       *)
(* callback invocations                                                    *)
passedPipe(lv, capyBound) ==
    [level |-> [lv EXCEPT !.pipes =
                    [i \in 1 .. Len(lv.pipes) |-> passedOne(lv.pipes[i], capyBound).pipe]],
     calls |-> sumCalls(lv.pipes, capyBound, 1)]

---------------------------------------------------------------------------
(* Capy *)

(* new Capy(dimensions): x = width / 3 (pixels), y = height / 2, vel = 0 *)
CapyX == Width \div 3

NewCapy == [y |-> (Height * Unit) \div 2, vel |-> 0]

moveCapy_NoClamp(c) ==
    [y |-> c.y + c.vel, vel |-> c.vel + GRAVITY]

(* moveCapy() *)
moveCapy(c) ==
    LET y1 == c.y + c.vel
        v1 == c.vel + GRAVITY
        abs == IF v1 < 0 THEN -v1 ELSE v1
    IN  IF abs > TERMINAL_VEL
        THEN IF v1 > 0
             THEN [y |-> y1, vel |-> TERMINAL_VEL]
             ELSE [y |-> y1, vel |-> TERMINAL_VEL * (-1)]
        ELSE [y |-> y1, vel |-> v1]

flap_Additive(c) == [c EXCEPT !.vel = @ - FLAP_SPEED]

(* flap() *)
flap(c) == [c EXCEPT !.vel = FLAP_SPEED * (-1)]

(* bounds(), in tenths *)
bounds(c) ==
    [left   |-> CapyX * Unit,
     right  |-> (CapyX + CAPY_WIDTH) * Unit,
     top    |-> c.y,
     bottom |-> c.y + (CAPY_HEIGHT * Unit)]

outOfBounds_Inclusive(c) ==
    LET aboveTop == c.y <= 0
        belowBottom == c.y + (CAPY_HEIGHT * Unit) >= Height * Unit
    IN  aboveTop \/ belowBottom

(* outOfBounds() *)
outOfBounds(c) ==
    LET aboveTop == c.y < 0
        belowBottom == c.y + (CAPY_HEIGHT * Unit) > Height * Unit
    IN  aboveTop \/ belowBottom

---------------------------------------------------------------------------
(* FlappyCapy.  A game g is the record of the instance's fields, of the    *)
(* callbacks requested with requestAnimationFrame and not yet run (raf),   *)
(* and of the score shown by the last alert (alerted, -1 before any).      *)
(* g.steps lists, in order, the calls the current handler or refresh has   *)
(* made so far.                                                            *)
(* A record d holds the Math.random() draws of one handler: d.recycle for  *)
(* the randomPipe of a recycle, d.r1, d.r2, d.r3 for those of new Level.   *)

Game ==
    [running |-> running, level |-> level, capy |-> capy, score |-> score,
     backgroundRunning |-> backgroundRunning, raf |-> raf, alerted |-> alerted,
     steps |-> steps]

(* a call made by the running handler *)
Did(g, call) == [g EXCEPT !.steps = Append(@, call)]

Draws == [recycle : LevelRand, r1 : LevelRand, r2 : LevelRand, r3 : LevelRand]

gameOver_PipesOnly(g) == collidesWith(g.level, bounds(g.capy))

(* gameOver() *)
gameOver(g) == collidesWith(g.level, bounds(g.capy)) \/ outOfBounds(g.capy)

animateLevelBackground_NoMove(g) ==
    LET g1 == Did([g EXCEPT !.level = moveAnimatedBackground(@)],
                  "moveAnimatedBackground")
        g3 == Did(g1, "drawCapy")
    IN  [g3 EXCEPT !.raf = Append(@, "animateLevelBackground")]

animateLevelBackground_Always(g) ==
    LET g1 == Did([g EXCEPT !.level = moveAnimatedBackground(@)],
                  "moveAnimatedBackground")
        g2 == Did([g1 EXCEPT !.capy = moveCapy(@)], "moveCapy")
        g3 == Did(g2, "drawCapy")
    IN  [g3 EXCEPT !.raf = Append(@, "animateLevelBackground")]

animateLevelBackground_Starts(g) ==
    LET g1 == Did([g EXCEPT !.level = moveAnimatedBackground(@)],
                  "moveAnimatedBackground")
        g2 == Did([g1 EXCEPT !.running = TRUE, !.capy = moveCapy(@)], "moveCapy")
        g3 == Did(g2, "drawCapy")
    IN  [g3 EXCEPT !.raf = Append(@, "animateLevelBackground")]

(* animateLevelBackground() *)
animateLevelBackground(g) ==
    LET g1 == Did([g EXCEPT !.level = moveAnimatedBackground(@)],
                  "moveAnimatedBackground")
        g2 == IF g1.running THEN Did([g1 EXCEPT !.capy = moveCapy(@)], "moveCapy") ELSE g1
        g3 == Did(g2, "drawCapy")
    IN  [g3 EXCEPT !.raf = Append(@, "animateLevelBackground")]

animateRest_Always(g) ==
    LET p == passedPipe(g.level, bounds(g.capy))
        g1 == Did(Did([g EXCEPT !.level = p.level, !.score = @ + p.calls],
                      "passedPipe"), "drawScore")
    IN  [g1 EXCEPT !.raf = Append(@, "animate")]

(* the part of animate() after the game-over branch: passedPipe with the   *)
(* score++ callback, drawScore, and the request of the next frame          *)
animateRest(g) ==
    LET p == passedPipe(g.level, bounds(g.capy))
        g1 == Did(Did([g EXCEPT !.level = p.level, !.score = @ + p.calls],
                      "passedPipe"), "drawScore")
    IN  IF g1.running THEN [g1 EXCEPT !.raf = Append(@, "animate")] ELSE g1

restartHead_KeepScore(g, d) ==
    LET g1 == [Did(g, "restart") EXCEPT !.running = FALSE,
                        !.level = NewLevel(d.r1, d.r2, d.r3),
                        !.capy = NewCapy]
    IN  IF ~g1.backgroundRunning
        THEN [animateLevelBackground(g1) EXCEPT !.backgroundRunning = TRUE]
        ELSE g1

restartHead_KeepLevel(g, d) ==
    LET g1 == [Did(g, "restart") EXCEPT !.running = FALSE, !.capy = NewCapy]
        g2 == IF ~g1.backgroundRunning
              THEN [animateLevelBackground(g1) EXCEPT !.backgroundRunning = TRUE]
              ELSE g1
    IN  [g2 EXCEPT !.score = 0]

restartHead_AlwaysBackground(g, d) ==
    LET g1 == [Did(g, "restart") EXCEPT !.running = FALSE,
                        !.level = NewLevel(d.r1, d.r2, d.r3),
                        !.capy = NewCapy]
        g2 == [animateLevelBackground(g1) EXCEPT !.backgroundRunning = TRUE]
    IN  [g2 EXCEPT !.score = 0]

(* restart() up to its closing this.animate() call *)
restartHead(g, d) ==
    LET g1 == [Did(g, "restart") EXCEPT !.running = FALSE,
                        !.level = NewLevel(d.r1, d.r2, d.r3),
                        !.capy = NewCapy]
        g2 == IF ~g1.backgroundRunning
              THEN [animateLevelBackground(g1) EXCEPT !.backgroundRunning = TRUE]
              ELSE g1
    IN  [g2 EXCEPT !.score = 0]

(* animate(), and the restart() it calls on game-over, which calls animate() *)
RECURSIVE animate(_, _)
animate(g, d) ==
    LET g1 == Did(Did([g EXCEPT !.level = movePipes(@, d.recycle)], "movePipes"),
                  "gameOver")
        g2 == IF gameOver(g1)
              THEN animate(restartHead(Did([g1 EXCEPT !.alerted = g1.score], "alert"),
                                       d), d)
              ELSE g1
    IN  animateRest(g2)

(* restart() *)
restart(g, d) == animate(restartHead(g, d), d)

(* play() *)
play(g, d) == animate([g EXCEPT !.running = TRUE], d)

mousedown_AlwaysPlay(g, d) ==
    LET g0 == [g EXCEPT !.steps = << >>]
        g1 == play(g0, d)
    IN  Did([g1 EXCEPT !.capy = flap(@)], "flap")

(* the mousedown listener of registerEvents *)
mousedown(g, d) ==
    LET g0 == [g EXCEPT !.steps = << >>]
        g1 == IF ~g0.running THEN play(g0, d) ELSE g0
    IN  Did([g1 EXCEPT !.capy = flap(@)], "flap")

(* new FlappyCapy(canvas, audioObj): registerEvents(), then restart() *)
NewFlappyCapy(d) ==
    restart([running |-> FALSE, level |-> NewLevel(0, 0, 0), capy |-> NewCapy,
             score |-> 0, backgroundRunning |-> FALSE, raf |-> << >>,
             alerted |-> -1, steps |-> << >>], d)

(* one display refresh: the callbacks requested so far run in the order of *)
(* their requests; what they request runs at the next refresh              *)
RECURSIVE runCallbacks(_, _, _)
runCallbacks(g, callbacks, d) ==
    IF callbacks = << >>
    THEN g
    ELSE runCallbacks(
            IF Head(callbacks) = "animate"
            THEN animate(g, d)
            ELSE animateLevelBackground(g),
            Tail(callbacks), d)

frame(g, d) == runCallbacks([g EXCEPT !.raf = << >>, !.steps = << >>], g.raf, d)

---------------------------------------------------------------------------
(* The game: the state after new FlappyCapy(...), display refreshes and    *)
(* mousedown events.                                                       *)

NoProbe == [op |-> "none"]

SetGame(g) ==
    /\ running' = g.running
    /\ level' = g.level
    /\ capy' = g.capy
    /\ score' = g.score
    /\ backgroundRunning' = g.backgroundRunning
    /\ raf' = g.raf
    /\ alerted' = g.alerted
    /\ steps' = g.steps

Init ==
    /\ \E d \in Draws :
          LET g == NewFlappyCapy(d)
          IN  /\ running = g.running
              /\ level = g.level
              /\ capy = g.capy
              /\ score = g.score
              /\ backgroundRunning = g.backgroundRunning
              /\ raf = g.raf
              /\ alerted = g.alerted
              /\ steps = g.steps
    /\ probe = NoProbe

(* the player's clicks: the first click of a session, and while running a  *)
(* click whenever the Capy's vel is one of ClickVels (rising at 3.5, 10    *)
(* refreshes after a flap, or falling at 8.1, 39 refreshes after a flap),  *)
(* until MaxScore                                                          *)
ClickVels == {-35, 81}

ClickAllowed ==
    \/ ~running
    \/ (capy.vel \in ClickVels /\ score < MaxScore)

(* an idle session sees at most MaxIdleFrames refreshes (counted on the    *)
(* first background strip, which moves BACKGROUND_SPEED per refresh)       *)
FrameAllowed ==
    \/ running
    \/ level.backgroundQueue[1].pos >
          (Width - BackgroundWidth) - BACKGROUND_SPEED * (MaxIdleFrames + 1)

(* The draws a handler does not consume are fixed to 0: d.recycle is       *)
(* consumed when the front pair is recycled (movePipes' test), d.r1, d.r2  *)
(* and d.r3 when restart() runs (the only place running becomes false).    *)
ZeroDraws == [recycle |-> 0, r1 |-> 0, r2 |-> 0, r3 |-> 0]

recycles(lv) == shiftPipe(lv.pipes[1]).topPipe.right <= 0

DrawsIn(recycling, restarting) ==
    [recycle : IF recycling THEN LevelRand ELSE {0},
     r1 : IF restarting THEN LevelRand ELSE {0},
     r2 : IF restarting THEN LevelRand ELSE {0},
     r3 : IF restarting THEN LevelRand ELSE {0}]

Frame ==
    /\ FrameAllowed
    /\ \E d \in DrawsIn(recycles(level), running /\ ~frame(Game, ZeroDraws).running) :
          SetGame(frame(Game, d))
    /\ probe' = [op |-> "frame"]

MouseDown ==
    /\ ClickAllowed
    /\ \E d \in DrawsIn(recycles(level), ~running /\ ~mousedown(Game, ZeroDraws).running) :
          SetGame(mousedown(Game, d))
    /\ probe' = [op |-> "mousedown"]

Next == Frame \/ MouseDown

Spec == Init /\ [][Next]_vars

---------------------------------------------------------------------------
(* A Level on its own: new Level(dimensions), then movePipes,              *)
(* collidesWith and passedPipe called in any order.                        *)

gameVars == <<running, capy, score, backgroundRunning, raf, alerted, steps>>

(* the rectangles handed to collidesWith and passedPipe, in tenths         *)
ProbeLefts == {1000, 1550, 1600}

ProbeTops == {0, 500, 510, 1660, 1670}

Rect(x, y) ==
    [left |-> x, right |-> x + (CAPY_WIDTH * Unit),
     top |-> y, bottom |-> y + (CAPY_HEIGHT * Unit)]

ProbeBounds == { Rect(x, y) : x \in ProbeLefts, y \in ProbeTops }

PassedBounds == { Rect(x, 0) : x \in {1000, 1600} }

LevelInit ==
    /\ \E r1 \in LevelRand, r2 \in LevelRand, r3 \in LevelRand :
          level = NewLevel(r1, r2, r3)
    /\ running = FALSE
    /\ capy = NewCapy
    /\ score = 0
    /\ backgroundRunning = FALSE
    /\ raf = << >>
    /\ alerted = -1
    /\ steps = << >>
    /\ probe = NoProbe

LevelMovePipes ==
    /\ \E rnd \in (IF recycles(level) THEN LevelRand ELSE {0}) :
          level' = movePipes(level, rnd)
    /\ probe' = [op |-> "movePipes"]
    /\ UNCHANGED gameVars

LevelCollidesWith ==
    /\ probe.op # "collidesWith"
    /\ \E b \in ProbeBounds :
          probe' = [op |-> "collidesWith", capyBound |-> b,
                    result |-> collidesWith(level, b)]
    /\ UNCHANGED level
    /\ UNCHANGED gameVars

LevelPassedPipe ==
    /\ \E b \in PassedBounds :
          LET p == passedPipe(level, b)
          IN  /\ level' = p.level
              /\ probe' = [op |-> "passedPipe", capyBound |-> b, calls |-> p.calls]
    /\ UNCHANGED gameVars

LevelNext == LevelMovePipes \/ LevelPassedPipe

LevelSpec == LevelInit /\ [][LevelNext]_vars

CollideNext == LevelMovePipes \/ LevelCollidesWith

CollideSpec == LevelInit /\ [][CollideNext]_vars

---------------------------------------------------------------------------
(* A Capy on its own: new Capy(dimensions), then moveCapy and flap called  *)
(* in any order.  probe keeps the Capy each call was made on.              *)

levelVars == <<running, level, score, backgroundRunning, raf, alerted, steps>>

CapyInit ==
    /\ capy = NewCapy
    /\ level = NewLevel(0, 0, 0)
    /\ running = FALSE
    /\ score = 0
    /\ backgroundRunning = FALSE
    /\ raf = << >>
    /\ alerted = -1
    /\ steps = << >>
    /\ probe = NoProbe

CapyMoveCapy ==
    /\ capy.y - NewCapy.y <= MaxFall
    /\ NewCapy.y - capy.y <= MaxFall
    /\ capy' = moveCapy(capy)
    /\ probe' = [op |-> "moveCapy", from |-> capy]
    /\ UNCHANGED levelVars

CapyFlap ==
    /\ capy' = flap(capy)
    /\ probe' = [op |-> "flap", from |-> capy]
    /\ UNCHANGED levelVars

CapyNext == CapyMoveCapy \/ CapyFlap

CapySpec == CapyInit /\ [][CapyNext]_vars

---------------------------------------------------------------------------
(* outOfBounds() as a function of the Capy's height: a Capy placed at one  *)
(* of ProbeYs, then queried.                                               *)

ProbeYs ==
    { base + k : base \in {0, (Height - CAPY_HEIGHT) * Unit, Height * Unit},
                 k \in (-ProbeSpan) .. ProbeSpan }

OobInit ==
    /\ \E y \in ProbeYs : capy = [NewCapy EXCEPT !.y = y]
    /\ level = NewLevel(0, 0, 0)
    /\ running = FALSE
    /\ score = 0
    /\ backgroundRunning = FALSE
    /\ raf = << >>
    /\ alerted = -1
    /\ steps = << >>
    /\ probe = NoProbe

OobQuery ==
    /\ probe = NoProbe
    /\ probe' = [op |-> "outOfBounds", result |-> outOfBounds(capy)]
    /\ UNCHANGED <<capy, levelVars>>

OobSpec == OobInit /\ [][OobQuery]_vars

---------------------------------------------------------------------------
(* randomPipe as a function of its distance and of the random draw: the    *)
(* distances are those of the constructor and of a recycle.                *)

(* Level construction alone, on canvases of several heights: the height is *)
(* chosen, then new Level(dimensions) is called once.  The constructor has *)
(* no throw statement and calls nothing that has one, so every call        *)
(* returns a Level (threw is FALSE).                                       *)
ConfigHeights == {Height - (k * EDGE_BUFFER) : k \in 0 .. MaxShrink}

ConfigInit ==
    /\ running = FALSE
    /\ level = NewLevel(0, 0, 0)
    /\ capy = NewCapy
    /\ score = 0
    /\ backgroundRunning = FALSE
    /\ raf = << >>
    /\ alerted = -1
    /\ steps = << >>
    /\ \E h \in ConfigHeights :
          probe = [op |-> "dimensions", dimensions |-> [width |-> Width, height |-> h]]

ConfigNewLevel ==
    /\ probe.op = "dimensions"
    /\ \E r1 \in LevelRand, r2 \in LevelRand, r3 \in LevelRand :
          level' = NewLevelIn(probe.dimensions, r1, r2, r3)
    /\ probe' = [op |-> "newLevel", dimensions |-> probe.dimensions, threw |-> FALSE]
    /\ UNCHANGED gameVars

ConfigSpec == ConfigInit /\ [][ConfigNewLevel]_vars

FirstPipeDistance == Width + (WARMUP_SECONDS * 60 * PIPE_SPEED)

GenDistances ==
    { FirstPipeDistance + (i * HORIZONTAL_PIPE_SPACING) : i \in 0 .. 2 }
        \cup { (3 * HORIZONTAL_PIPE_SPACING) - PIPE_WIDTH }

GenInit ==
    /\ level = NewLevel(0, 0, 0)
    /\ capy = NewCapy
    /\ running = FALSE
    /\ score = 0
    /\ backgroundRunning = FALSE
    /\ raf = << >>
    /\ alerted = -1
    /\ steps = << >>
    /\ probe = NoProbe

GenRandomPipe ==
    /\ \E distance \in GenDistances, rnd \in Rand :
          probe' = [op |-> "randomPipe", distance |-> distance, rnd |-> rnd,
                    pipe |-> randomPipe(distance, rnd)]
    /\ UNCHANGED <<capy, levelVars>>

GenSpec == GenInit /\ [][GenRandomPipe]_vars

---------------------------------------------------------------------------
(* The background of a Level on its own: new Level(dimensions), then       *)
(* moveAnimatedBackground called again and again.  The strips come back to *)
(* their first positions after BackgroundWidth calls.                      *)

BackgroundInit ==
    /\ level = NewLevel(0, 0, 0)
    /\ running = FALSE
    /\ capy = NewCapy
    /\ score = 0
    /\ backgroundRunning = FALSE
    /\ raf = << >>
    /\ alerted = -1
    /\ steps = << >>
    /\ probe = NoProbe

BackgroundMove ==
    /\ level' = moveAnimatedBackground(level)
    /\ probe' = [op |-> "moveAnimatedBackground"]
    /\ UNCHANGED gameVars

BackgroundSpec == BackgroundInit /\ [][BackgroundMove]_vars

---------------------------------------------------------------------------
(* Claims *)

(* C1 (LevelSpec): the Level holds exactly 3 pipe pairs in every reachable *)
(* state: after construction and after every movePipes call, the calls     *)
(* that recycle the front pair included.                                   *)
C1_PipeCount == Len(level.pipes) = 3

(* a state movePipes leaves right after a recycle: the pair behind the one *)
(* removed at right edge 0 is now the front, and the queue holds 3 pairs   *)
C1_Witness ==
    /\ probe.op = "movePipes"
    /\ Len(level.pipes) = 3
    /\ level.pipes[1].topPipe.right = HORIZONTAL_PIPE_SPACING

(* C2 (LevelSpec): consecutive pairs of the queue are exactly              *)
(* HORIZONTAL_PIPE_SPACING apart (left edge to left edge, on both          *)
(* sub-pipes), at construction, after a recycle and after every movePipes. *)
C2_Spacing ==
    \A i \in 1 .. (Len(level.pipes) - 1) :
        /\ level.pipes[i + 1].topPipe.left - level.pipes[i].topPipe.left
              = HORIZONTAL_PIPE_SPACING
        /\ level.pipes[i + 1].bottomPipe.left - level.pipes[i].bottomPipe.left
              = HORIZONTAL_PIPE_SPACING

(* right after a recycle: the back pair is the one just created, one       *)
(* spacing behind the pair that was the back before                        *)
C2_Witness ==
    /\ probe.op = "movePipes"
    /\ level.pipes[1].topPipe.left = HORIZONTAL_PIPE_SPACING - PIPE_WIDTH
    /\ level.pipes[3].topPipe.left
          = level.pipes[2].topPipe.left + HORIZONTAL_PIPE_SPACING
    /\ ~level.pipes[3].passed

(* C3 (CapySpec): after every moveCapy and every flap, from a new Capy,    *)
(* |vel| <= TERMINAL_VEL.                                                  *)
C3_VelocityClamp ==
    /\ capy.vel <= TERMINAL_VEL
    /\ capy.vel >= -TERMINAL_VEL

(* a moveCapy whose vel + GRAVITY exceeded TERMINAL_VEL and was clamped    *)
C3_Witness ==
    /\ probe.op = "moveCapy"
    /\ probe.from.vel + GRAVITY > TERMINAL_VEL
    /\ capy.vel = TERMINAL_VEL

(* C4 (Spec): a step in which the session goes from running to idle (a     *)
(* tick that detected game-over) ends with score 0, a new Capy (y =        *)
(* Height / 2, vel 0) and a new Level: 3 pairs generated at the            *)
(* constructor's distances, none passed (they have been advanced once, by  *)
(* the animate() call that ends restart()).                                *)
C4_FreshPipes(pipes) ==
    /\ Len(pipes) = 3
    /\ \A i \in 1 .. 3 :
          \E rnd \in Rand :
              pipes[i] = shiftPipe(randomPipe(
                  FirstPipeDistance + ((i - 1) * HORIZONTAL_PIPE_SPACING), rnd))

C4_RestartResets ==
    [][ (running /\ ~running') =>
            /\ score' = 0
            /\ capy' = [y |-> (Height * Unit) \div 2, vel |-> 0]
            /\ C4_FreshPipes(level'.pipes)
            /\ \A i \in 1 .. 3 : ~level'.pipes[i].passed
            /\ alerted' = score ]_vars

(* the session is idle and reset after a game-over whose alert showed a    *)
(* positive score                                                          *)
C4_Witness ==
    /\ alerted > 0
    /\ ~running
    /\ score = 0
    /\ probe.op = "frame"

(* C5 (LevelSpec): a passedPipe query sets passed on exactly the pairs     *)
(* whose right edge is strictly left of the bounds' left edge, invokes the *)
(* callback once for each pair it turns from false to true and not at all  *)
(* for a pair already passed; movePipes keeps every flag, so passed never  *)
(* returns to false while the pair is in the queue.                        *)
C5_Behind(pipe, capyBound) == pipe.topPipe.right * Unit < capyBound.left

C5_PassedOnce ==
    [][ /\ probe'.op = "passedPipe" =>
            /\ Len(level'.pipes) = Len(level.pipes)
            /\ \A i \in 1 .. Len(level.pipes) :
                  /\ level'.pipes[i].passed
                        = (level.pipes[i].passed
                             \/ C5_Behind(level.pipes[i], probe'.capyBound))
                  /\ level'.pipes[i].topPipe = level.pipes[i].topPipe
                  /\ level'.pipes[i].bottomPipe = level.pipes[i].bottomPipe
            /\ probe'.calls =
                  Cardinality({ i \in 1 .. Len(level.pipes) :
                                  /\ ~level.pipes[i].passed
                                  /\ C5_Behind(level.pipes[i], probe'.capyBound) })
        /\ probe'.op = "movePipes" =>
            \A i \in 1 .. Len(level.pipes) :
                level.pipes[i].passed =>
                    \/ /\ i > 1
                       /\ level'.pipes[i - 1].passed
                       /\ level'.pipes[i - 1].topPipe.left
                             = level.pipes[i].topPipe.left - PIPE_SPEED
                    \/ /\ level'.pipes[i].passed
                       /\ level'.pipes[i].topPipe.left
                             = level.pipes[i].topPipe.left - PIPE_SPEED
                    \/ /\ i = 1
                       /\ level.pipes[1].topPipe.right - PIPE_SPEED <= 0 ]_vars

(* a query that found a pair behind the bounds already passed and did not  *)
(* invoke the callback                                                     *)
C5_Witness ==
    /\ probe.op = "passedPipe"
    /\ probe.calls = 0
    /\ \E i \in 1 .. Len(level.pipes) :
          /\ level.pipes[i].passed
          /\ C5_Behind(level.pipes[i], probe.capyBound)

(* C6 (LevelSpec, Width 480, Height 640, PIPE_SPEED 2): movePipes removes  *)
(* the front pair exactly when its right edge, after the shift, is <= 0:   *)
(* no state keeps a front pair with right edge <= 0, a call whose shifted  *)
(* front pair has right edge > 0 only shifts, and a call that recycles     *)
(* appends a pair whose left edge is that of the previous back pair plus   *)
(* HORIZONTAL_PIPE_SPACING.                                                *)
C6_RecycleExact ==
    [][ probe'.op = "movePipes" =>
            /\ level'.pipes[1].topPipe.right > 0
            /\ IF level.pipes[1].topPipe.right - PIPE_SPEED <= 0
               THEN /\ level'.pipes[1] = shiftPipe(level.pipes[2])
                    /\ level'.pipes[2] = shiftPipe(level.pipes[3])
                    /\ level'.pipes[3].topPipe.left
                          = level'.pipes[2].topPipe.left + HORIZONTAL_PIPE_SPACING
                    /\ level'.pipes[3].bottomPipe.left
                          = level'.pipes[2].bottomPipe.left + HORIZONTAL_PIPE_SPACING
               ELSE \A i \in 1 .. 3 : level'.pipes[i] = shiftPipe(level.pipes[i]) ]_vars

(* the state after the recycle: the new back pair at 3 spacings less one   *)
(* pipe width                                                              *)
C6_Witness ==
    /\ probe.op = "movePipes"
    /\ level.pipes[1].topPipe.right = HORIZONTAL_PIPE_SPACING
    /\ level.pipes[3].topPipe.left = (3 * HORIZONTAL_PIPE_SPACING) - PIPE_WIDTH
    /\ level.pipes[3].topPipe.right = 3 * HORIZONTAL_PIPE_SPACING

C9_Apart(lo1, hi1, lo2, hi2) == hi1 < lo2 \/ hi2 < lo1

C9_Touches(pipe, capyBound) ==
    LET gapTop == pipe.topPipe.bottom
        gapBottom == pipe.bottomPipe.top
        across == ~C9_Apart(pipe.topPipe.left * Unit, pipe.topPipe.right * Unit,
                            capyBound.left, capyBound.right)
    IN  \/ across /\ ~C9_Apart(0, gapTop * Unit, capyBound.top, capyBound.bottom)
        \/ across /\ ~C9_Apart(gapBottom * Unit, Height * Unit,
                               capyBound.top, capyBound.bottom)

C9_Example == [left |-> 1000, right |-> 1450, top |-> 0, bottom |-> 330]

C9_ExamplePipe == [left |-> 90, right |-> 140, top |-> 0, bottom |-> 50]

C9_Collides ==
    probe.op = "collidesWith" =>
        /\ probe.result
              = (\E i \in 1 .. Len(level.pipes) :
                    C9_Touches(level.pipes[i], probe.capyBound))
        /\ ( /\ probe.capyBound = C9_Example
             /\ \E i \in 1 .. Len(level.pipes) :
                   level.pipes[i].topPipe = C9_ExamplePipe )
           => probe.result

(* the scenario of the claim, answered true *)
C9_Witness ==
    /\ probe.op = "collidesWith"
    /\ probe.capyBound = C9_Example
    /\ \E i \in 1 .. Len(level.pipes) : level.pipes[i].topPipe = C9_ExamplePipe
    /\ probe.result

(* C10 (OobSpec): outOfBounds() is true exactly when y < 0 or              *)
(* y + CAPY_HEIGHT > Height: true at y = Height, false at y = 0 and at     *)
(* y = Height - CAPY_HEIGHT.                                               *)
C10_OutOfBounds ==
    probe.op = "outOfBounds" =>
        /\ probe.result
              = (capy.y < 0 \/ capy.y + (CAPY_HEIGHT * Unit) > Height * Unit)
        /\ capy.y = 6400 => probe.result
        /\ capy.y = 0 => ~probe.result
        /\ capy.y = 6070 => ~probe.result

(* the scenario of the claim: y = Height = 640, answered true *)
C10_Witness ==
    /\ probe.op = "outOfBounds"
    /\ capy.y = Height * Unit
    /\ probe.result

(* the number of requested callbacks of one name that have not run yet *)
RECURSIVE C11_Count(_, _)
C11_Count(callbacks, name) ==
    IF callbacks = << >>
    THEN 0
    ELSE (IF Head(callbacks) = name THEN 1 ELSE 0) + C11_Count(Tail(callbacks), name)

(* C11 as stated (Spec): a tick that detects game-over and resets the      *)
(* session still requests a next tick, so animate keeps running while the  *)
(* session is idle.                                                        *)
C11_StillTicking ==
    [][(running /\ ~running') => C11_Count(raf', "animate") >= 1]_vars

(* C11 amended (Spec): a tick that detects game-over and resets the        *)
(* session requests no next tick: after it no animate callback is pending, *)
(* only the animateLevelBackground callback is, and a refresh of an idle   *)
(* session runs no animate (the pipes stay where they are) until the next  *)
(* mousedown.                                                              *)
C11_TickStopsWhenIdle ==
    [][ /\ (running /\ ~running')
            => /\ C11_Count(raf', "animate") = 0
               /\ C11_Count(raf', "animateLevelBackground") = 1
        /\ (~running /\ probe'.op = "frame")
            => /\ C11_Count(raf', "animate") = 0
               /\ level'.pipes = level.pipes
               /\ C11_Count(steps', "movePipes") = 0 ]_vars

(* an idle session after a game-over, refreshed once more *)
C11_Witness ==
    /\ ~running
    /\ alerted >= 0
    /\ probe.op = "frame"
    /\ C11_Count(steps, "restart") = 0
    /\ C11_Count(raf, "animate") = 0

(* the gap of a pair lies between the edge buffers of a canvas that high *)
C12_GapInBuffers(pipe, height) ==
    /\ pipe.topPipe.bottom >= EDGE_BUFFER
    /\ pipe.bottomPipe.top <= height - EDGE_BUFFER
    /\ pipe.topPipe.bottom < pipe.bottomPipe.top
    /\ pipe.bottomPipe.top <= pipe.bottomPipe.bottom

(* C12 (ConfigSpec): on a canvas too low for the gap and both edge buffers *)
(* (PIPE_GAP + 2 * EDGE_BUFFER > height) new Level(dimensions) fails with  *)
(* an error, and no pair whose gap is inverted or outside the buffers is   *)
(* produced.                                                               *)
C12_FailsFast ==
    ( /\ probe.op = "newLevel"
      /\ PIPE_GAP + (2 * EDGE_BUFFER) > probe.dimensions.height )
    => /\ probe.threw
       /\ \A i \in 1 .. Len(level.pipes) :
             C12_GapInBuffers(level.pipes[i], probe.dimensions.height)

(* what gameOver() answers in the animate() of the coming refresh: the     *)
(* Capy has been moved by animateLevelBackground and the pipes by animate  *)
C13_GameOverAtTick ==
    gameOver([Game EXCEPT !.capy = moveCapy(capy), !.level = movePipes(level, 0)])

(* C13 (Spec): running changes only from false to true inside the          *)
(* mousedown listener, and only from true to false inside a refresh whose  *)
(* animate() found gameOver() true (it alerts and restarts once); no other *)
(* step changes it.                                                        *)
C13_RunStateChanges ==
    [][ /\ (~running /\ running')
            => /\ probe'.op = "mousedown"
               /\ C11_Count(steps', "restart") = 0
        /\ (running /\ ~running')
            => /\ probe'.op = "frame"
               /\ C13_GameOverAtTick
               /\ C11_Count(steps', "alert") = 1
               /\ C11_Count(steps', "restart") = 1 ]_vars

(* a second session started by a mousedown after a game-over *)
C13_Witness ==
    /\ running
    /\ alerted >= 0
    /\ probe.op = "mousedown"
    /\ C11_Count(steps, "movePipes") = 1

(* the Capy touches a sub-pipe of the Level or is out of the canvas *)
C14_GameOverPosition ==
    \/ \E i \in 1 .. Len(level.pipes) : C9_Touches(level.pipes[i], bounds(capy))
    \/ capy.y < 0
    \/ capy.y + (CAPY_HEIGHT * Unit) > Height * Unit

(* the Capy is level with a pair, between its left and right edges *)
C14_InsidePair ==
    \E i \in 1 .. Len(level.pipes) :
        ~C9_Apart(level.pipes[i].topPipe.left * Unit, level.pipes[i].topPipe.right * Unit,
                  bounds(capy).left, bounds(capy).right)

(* C14 (Spec): when animate() has run, reset or not, the Capy touches no   *)
(* sub-pipe of the Level and is not out of bounds; and an animate() of a   *)
(* running session that finds gameOver() true restarts in the same call,   *)
(* leaving the session idle.                                               *)
C14_NeverLeftInGameOver ==
    /\ [](C11_Count(steps, "movePipes") >= 1 => ~C14_GameOverPosition)
    /\ [][ (running /\ probe'.op = "frame" /\ C13_GameOverAtTick)
            => /\ ~running'
               /\ C11_Count(steps', "restart") = 1
               /\ ~C14_GameOverPosition' ]_vars

(* the Capy flying through the gap of a pair at the end of a tick *)
C14_Witness ==
    /\ running
    /\ probe.op = "frame"
    /\ C11_Count(steps, "movePipes") = 1
    /\ C14_InsidePair

C15_IsUpdate(call) == call \in {"movePipes", "moveCapy", "gameOver"}

(* the position updates and game-over evaluations of the last step, in order *)
C15_Updates == SelectSeq(steps, C15_IsUpdate)

(* those up to the first evaluation of gameOver() in a running refresh *)
C15_FirstUpdates ==
    SubSeq(C15_Updates, 1, IF Len(C15_Updates) < 3 THEN Len(C15_Updates) ELSE 3)

C16_IdleCapyStill ==
    /\ [](~running => (capy.y = (Height * Unit) \div 2 /\ capy.vel = 0))
    /\ [][ (~running /\ probe'.op = "frame")
            => /\ capy' = capy
               /\ ~running'
               /\ C11_Count(steps', "moveCapy") = 0
               /\ C11_Count(steps', "drawCapy") = 1
               /\ level'.backgroundQueue # level.backgroundQueue
               /\ C11_Count(raf', "animateLevelBackground") = 1 ]_vars

(* an idle session after a game-over, refreshed MaxIdleFrames + 1 times *)
C16_Witness ==
    /\ ~running
    /\ alerted >= 0
    /\ probe.op = "frame"
    /\ capy = NewCapy
    /\ level.backgroundQueue[1].pos
          = (Width - BackgroundWidth) - BACKGROUND_SPEED * (MaxIdleFrames + 1)

(* the pairs of the queue that are marked passed *)
C17_Passed(lv) == {i \in 1 .. Len(lv.pipes) : lv.pipes[i].passed}

(* the pairs a step marks passed: marked after it and not before it (a     *)
(* step that recycles the front pair moves each pair one place forward)    *)
C17_Flips ==
    LET moved == IF C11_Count(steps', "movePipes") >= 1 /\ recycles(level) THEN 1 ELSE 0
    IN  Cardinality({j \in C17_Passed(level') :
                        j + moved > Len(level.pipes) \/ ~level.pipes[j + moved].passed})

(* C17 (Spec): the score is a natural number, at least the number of       *)
(* marked pairs in the queue; a step without restart raises it by the      *)
(* number of pairs the step marks passed, which is at most 1, and never    *)
(* lowers it; a step that detects game-over leaves score 0 and marks none. *)
C17_ScoreCountsPassed ==
    /\ [](score \in Nat /\ score >= Cardinality(C17_Passed(level)))
    /\ [][ /\ C11_Count(steps', "restart") = 0
                => /\ score' - score = C17_Flips
                   /\ C17_Flips <= 1
                   /\ score' >= score
           /\ C11_Count(steps', "restart") >= 1
                => /\ score' = 0
                   /\ C17_Passed(level') = {} ]_vars

(* the second pair has just been marked passed *)
C17_Witness ==
    /\ running
    /\ score = 2
    /\ probe.op = "frame"
    /\ \E i \in C17_Passed(level) :
          level.pipes[i].topPipe.right = CapyX - PIPE_SPEED

(* C18 (Spec): between handlers exactly one animate callback is pending    *)
(* when the session is running and none when it is idle, whatever the      *)
(* order of refreshes, mousedowns and restarts: never two.                 *)
C18_OneAnimatePending ==
    C11_Count(raf, "animate") = IF running THEN 1 ELSE 0

(* a mousedown in a running session started after a game-over *)
C18_Witness ==
    /\ running
    /\ alerted >= 0
    /\ probe.op = "mousedown"
    /\ steps = <<"flap">>
    /\ C11_Count(raf, "animate") = 1

(* C19 (Spec): animateLevelBackground is started once, by the              *)
(* constructor's restart(), and exactly one of its callbacks is pending    *)
(* in every state, however many restarts follow; no handler calls moveCapy *)
(* more than once.                                                         *)
C19_OneBackgroundLoop ==
    /\ backgroundRunning
    /\ C11_Count(raf, "animateLevelBackground") = 1
    /\ C11_Count(steps, "moveCapy") <= 1
    /\ C11_Count(steps, "moveAnimatedBackground") <= 1

(* a refresh of a session started again after a game-over *)
C19_Witness ==
    /\ running
    /\ alerted >= 0
    /\ probe.op = "frame"
    /\ C11_Count(steps, "moveCapy") = 1
    /\ C11_Count(raf, "animateLevelBackground") = 1

(* C20 (Spec): a pair is marked passed before it is recycled: whenever the *)
(* movePipes of a tick removes the front pair, that pair's passed flag is  *)
(* already set (it was set, and the score raised, while the pair was       *)
(* between the Capy's left edge and the canvas' left edge).                *)
C20_PassedBeforeRecycled ==
    [][ (C11_Count(steps', "movePipes") >= 1 /\ recycles(level))
            => /\ level.pipes[1].passed
               /\ score >= 1 ]_vars

(* the tick that recycled the first pair of a session: the pair now in     *)
(* front is not yet passed and the one appended is a spacing behind the    *)
(* last                                                                    *)
C20_Witness ==
    /\ running
    /\ probe.op = "frame"
    /\ score >= 1
    /\ C17_Passed(level) = {}
    /\ level.pipes[1].topPipe.right = HORIZONTAL_PIPE_SPACING
    /\ level.pipes[3].topPipe.left = level.pipes[2].topPipe.left + HORIZONTAL_PIPE_SPACING

(* gameOver() in the animate() that ends restart(), whatever gaps the new  *)
(* Level draws: a new Capy and new pairs moved by one tick                 *)
C21_FreshGameOver ==
    \E r \in Rand :
        gameOver([capy |-> NewCapy, level |-> movePipes(NewLevel(r, r, r), 0)])

(* C21 (Spec): restart() returns: no handler calls restart() more than     *)
(* once, because the animate() that ends restart() finds gameOver() false  *)
(* on the new session (Capy at Height / 2 with vel 0, first pair at        *)
(* Width + WARMUP_SECONDS * 60 * PIPE_SPEED less one PIPE_SPEED); a tick   *)
(* that restarts evaluates gameOver() twice, the second time false.        *)
C21_RestartReturns ==
    /\ [](C11_Count(steps, "restart") <= 1)
    /\ [][ C11_Count(steps', "restart") = 1
            => /\ ~C21_FreshGameOver
               /\ C11_Count(steps', "alert") = 1
               /\ C11_Count(steps', "gameOver") = 2
               /\ ~running'
               /\ capy' = NewCapy
               /\ level'.pipes[1].topPipe.left
                     = Width + (WARMUP_SECONDS * 60 * PIPE_SPEED) - PIPE_SPEED
               /\ ~C14_GameOverPosition' ]_vars

(* a tick that found game-over with points scored and restarted once *)
C21_Witness ==
    /\ probe.op = "frame"
    /\ alerted >= 1
    /\ C11_Count(steps, "restart") = 1
    /\ C11_Count(steps, "gameOver") = 2
    /\ level.pipes[1].topPipe.left = Width + (WARMUP_SECONDS * 60 * PIPE_SPEED) - PIPE_SPEED

(* the queue holds one strip, or two that are BackgroundWidth apart *)
C22_QueueShape ==
    /\ Len(level.backgroundQueue) \in {1, 2}
    /\ Len(level.backgroundQueue) = 2
          => level.backgroundQueue[2].pos - level.backgroundQueue[1].pos = BackgroundWidth

(* C22 (BackgroundSpec): the background queue always holds one or two      *)
(* strips, two strips being BackgroundWidth apart.  A call of              *)
(* moveAnimatedBackground appends a strip exactly when the lead strip is   *)
(* at Width - BackgroundWidth, and appends it at Width (it ends the call   *)
(* one BACKGROUND_SPEED further left); it removes the lead strip exactly   *)
(* when that strip is at -BackgroundWidth; every strip that stays moves    *)
(* BACKGROUND_SPEED to the left.                                           *)
C22_BackgroundQueue ==
    /\ []C22_QueueShape
    /\ [][ probe'.op = "moveAnimatedBackground"
            => LET q == level.backgroundQueue
                   after == level'.backgroundQueue
                   appended == Len(after) = Len(q) + 1
                   removed == Len(after) = Len(q) - 1
               IN  /\ appended <=> (q[1].pos = Width - BackgroundWidth)
                   /\ removed <=> (q[1].pos = -BackgroundWidth)
                   /\ appended
                        => /\ after[Len(after)].pos = Width - BACKGROUND_SPEED
                           /\ \A i \in 1 .. Len(q) :
                                 after[i].pos = q[i].pos - BACKGROUND_SPEED
                   /\ removed
                        => \A i \in 1 .. Len(after) :
                              after[i].pos = q[i + 1].pos - BACKGROUND_SPEED
                   /\ (~appended /\ ~removed)
                        => /\ Len(after) = Len(q)
                           /\ \A i \in 1 .. Len(q) :
                                 after[i].pos = q[i].pos - BACKGROUND_SPEED ]_vars

(* the call that removed the lead strip: the strip left starts at the      *)
(* canvas' left edge less one BACKGROUND_SPEED                             *)
C22_Witness ==
    /\ probe.op = "moveAnimatedBackground"
    /\ Len(level.backgroundQueue) = 1
    /\ level.backgroundQueue[1].pos = -BACKGROUND_SPEED
====
